---- MODULE Spec2Model ----
(***************************************************************************)
(* Model of the matching / analysis engine of ai-resume-matcher            *)
(* (backend/app/main.py, backend/app/services.py).                         *)
(*                                                                         *)
(* State: the per-resume analysis_results column (store), the requests in  *)
(* progress (requests), one unit of work per resume, and history variables *)
(* that observe evaluator invocations and successive calls.  ranking holds *)
(* the last response of get_candidate_matches, probe one application of a  *)
(* scoring function to given arguments.                                    *)
(*                                                                         *)
(* Python's asyncio is cooperative: a coroutine is atomic between two      *)
(* awaits.  ensure_analysis_for_jd awaits only the external evaluator, so  *)
(* a call is at most two steps: begin (up to the await) and the evaluator's*)
(* return (everything after it, commit included).                          *)
(*                                                                         *)
(* Numbers: scores are in hundredths (7000 is 70.00), similarities in      *)
(* ten-thousandths (1500 is 0.15).  The analyzed_at timestamp is modelled  *)
(* by its presence ("set") only.                                           *)
(***************************************************************************)
EXTENDS Integers, Sequences, FiniteSets, TLC

VARIABLES store, requests, started, seq, ranking, probe, uploads

vars == <<store, requests, started, seq, ranking, probe, uploads>>

(***************************************************************************)
(* Bounds of the model                                                     *)
(***************************************************************************)
\* requests started in one behaviour
MaxStarts == 2

\* request slots: requests that can be in progress at the same time
Slots == {1, 2}

(***************************************************************************)
(* Program constants                                                       *)
(***************************************************************************)
\* asyncio.Semaphore(5) of full_analysis_for_jd
SemaphoreLimit == 5

\* sim < 0.15, in ten-thousandths
SimThresholdE4 == 1500

\* total_score > 70 and > 35, in hundredths
StrongAboveE2 == 7000
GoodAboveE2 == 3500

(***************************************************************************)
(* Skill labels.  NonStr stands for a list element that is not a string    *)
(* (a number, null): calling .lower() on it raises AttributeError.         *)
(***************************************************************************)
NonStr == "<non-string>"

\* str.lower() on the labels of the model
Lower(s) ==
    CASE s = "Py" -> "py"
      [] s = "PY" -> "py"
      [] s = "SQL" -> "sql"
      [] s = "Sql" -> "sql"
      [] s = "Go" -> "go"
      [] s = "GO" -> "go"
      [] s = "Rust" -> "rust"
      [] OTHER -> s

Range(f) == {f[i] : i \in DOMAIN f}

LowerSet(xs) == {Lower(x) : x \in Range(xs)}

\* [x for x in xs if P(x)], order kept
RECURSIVE SelectIn(_, _)
SelectIn(xs, S) ==
    IF xs = <<>> THEN <<>>
    ELSE IF Head(xs) \in S THEN <<Head(xs)>> \o SelectIn(Tail(xs), S)
         ELSE SelectIn(Tail(xs), S)

(***************************************************************************)
(* Job descriptions (rows of job_descriptions; not changed by the          *)
(* operations modelled).  Job 3 has no required skills.  None is a NULL    *)
(* column.                                                                 *)
(***************************************************************************)
None == "None"

JobIds == {1, 2, 3}

JobDescription(j) ==
    CASE j = 1 -> [id |-> 1, required_skills |-> <<"Py", "SQL">>,
                   nice_to_have_skills |-> <<"Go">>,
                   embedding |-> <<1, 0, 0, 0, 0>>,
                   text |-> <<"py", "sql", "go", "engineer">>]
      [] j = 2 -> [id |-> 2, required_skills |-> <<"SQL">>,
                   nice_to_have_skills |-> <<>>,
                   embedding |-> <<1, 0, 0, 0, 0>>,
                   text |-> <<"sql", "analyst">>]
      [] OTHER -> [id |-> 3, required_skills |-> <<>>,
                   nice_to_have_skills |-> <<"Go">>,
                   embedding |-> <<1, 0, 0, 0, 0>>,
                   text |-> <<"go">>]

(***************************************************************************)
(* Resumes: the columns other than analysis_results, which is the variable *)
(* store.  parsed_json is what the resume parser (an LLM) returned and is  *)
(* stored as is (resume.py), so its skills list may hold a non-string.     *)
(*   1: similarity to the jobs exactly 0.15 (3 / 20)                       *)
(*   2: similarity 0.1, a non-string among the parsed skills               *)
(*   3: no embedding, no parsed_json                                       *)
(*   4..6: similarity 0.6                                                  *)
(***************************************************************************)
AllResumeIds == 1..6

Resume(c) ==
    CASE c = 1 -> [embedding |-> <<3, 19, 5, 2, 1>>,
                   parsed_skills |-> <<"py", "Rust", "GO">>,
                   text |-> <<"py", "go", "rust">>, years |-> <<70>>]
      [] c = 2 -> [embedding |-> <<1, 9, 3, 3, 0>>,
                   parsed_skills |-> <<"SQL", NonStr>>,
                   text |-> <<"sql">>, years |-> <<>>]
      [] c = 3 -> [embedding |-> None,
                   parsed_skills |-> None,
                   text |-> <<>>, years |-> <<>>]
      [] OTHER -> [embedding |-> <<3, 4, 0, 0, 0>>,
                   parsed_skills |-> <<"Sql">>,
                   text |-> <<"sql", "py">>, years |-> <<250>>]

(***************************************************************************)
(* cosine_similarity (main.py:225-263), on integer vectors.                *)
(***************************************************************************)
RECURSIVE DotUpTo(_, _, _)
DotUpTo(a, b, n) == IF n = 0 THEN 0 ELSE DotUpTo(a, b, n - 1) + a[n] * b[n]

Min(x, y) == IF x < y THEN x ELSE y
Max(x, y) == IF x < y THEN y ELSE x

\* floor(sqrt(n)), by bisection on lo <= sqrt(n) < hi
RECURSIVE ISqrtIn(_, _, _)
ISqrtIn(n, lo, hi) ==
    IF hi - lo <= 1 THEN lo
    ELSE LET mid == (lo + hi) \div 2
         IN  IF mid * mid <= n THEN ISqrtIn(n, mid, hi) ELSE ISqrtIn(n, lo, mid)

\* floor(20000 * dot / sqrt(sa * sb)) for 0 <= dot <= 4, sa > 0, sb > 0:
\* the root of floor(4 * 10^8 * dot^2 / (sa * sb)), kept within 32 bits
FloorRatio(dot, sa, sb) ==
    LET n == 100000000 * dot * dot
        d == sa * sb
    IN  ISqrtIn(4 * (n \div d) + (4 * (n % d)) \div d, 0, 20001)

\* an argument that is neither None nor a list or tuple (a string, a dict)
NotAList == "<not-a-list>"

\* stands for a vector element that float() rejects (None, a word)
NotNumeric == 99

\* main.py:250-258: the pairs of zip(vec_a, vec_b) with both elements
\* numeric, as two sequences
RECURSIVE NumericPairs(_, _, _)
NumericPairs(a, b, n) ==
    IF n = 0 THEN <<<<>>, <<>>>>
    ELSE LET p == NumericPairs(a, b, n - 1)
         IN  IF a[n] = NotNumeric \/ b[n] = NotNumeric THEN p
             ELSE <<Append(p[1], a[n]), Append(p[2], b[n])>>

\* dot / (sqrt(sum_a) * sqrt(sum_b)) in units of 1 / 20000, floored: enough
\* to decide sim < 0.15 exactly and to round to four places
cosine_similarity(vec_a, vec_b) ==
    IF vec_a = None \/ vec_b = None THEN 0
    ELSE IF vec_a = NotAList \/ vec_b = NotAList THEN 0
    ELSE IF Len(vec_a) = 0 \/ Len(vec_b) = 0 THEN 0
    ELSE LET p == NumericPairs(vec_a, vec_b, Min(Len(vec_a), Len(vec_b)))
             n == Len(p[1])
             dot == DotUpTo(p[1], p[2], n)
             sum_a == DotUpTo(p[1], p[1], n)
             sum_b == DotUpTo(p[2], p[2], n)
         IN  IF sum_a = 0 \/ sum_b = 0 THEN 0
             ELSE IF dot < 0 THEN 0 - FloorRatio(0 - dot, sum_a, sum_b)
             ELSE FloorRatio(dot, sum_a, sum_b)

\* the value in ten-thousandths, floored: x < 0.15 iff SimE4(x) < 1500
SimE4(half) == half \div 2

\* round(similarity, 4), in ten-thousandths
Round4(half) == (half + 1) \div 2

\* the similarity of every (resume, job) pair, computed once
SimTable ==
    [c \in AllResumeIds, j \in JobIds |->
        IF Resume(c).embedding # None /\ JobDescription(j).embedding # None
        THEN cosine_similarity(Resume(c).embedding, JobDescription(j).embedding)
        ELSE 0]

(***************************************************************************)
(* Heuristic scorer (main.py:101-221).  A text is modelled by its          *)
(* normalized tokens and by the numbers (in tenths of a year) its          *)
(* "<n> years" mentions hold.  rapidfuzz and scikit-learn are libraries:   *)
(* partial_ratio is 100 on a token, 90 on a listed near miss and 0         *)
(* otherwise; the TF-IDF cosine is taken to be the share of common tokens. *)
(* A text is the sequence of the words of its normalized form.  The texts  *)
(* of the jobs and resumes above all hold a token, so that scoring them    *)
(* does not raise.                                                         *)
(***************************************************************************)
NearMiss == {<<"sql", "sqll">>, <<"go", "goo">>}

partial_ratio(needle, haystack) ==
    IF needle \in Range(haystack) THEN 100
    ELSE IF \E t \in Range(haystack) : <<needle, t>> \in NearMiss THEN 90
    ELSE 0

\* a variant of _fuzzy_contains without the test of main.py:147-148 (the
\* empty string is a substring of every text): the property about skill
\* matching must tell it from _fuzzy_contains
_fuzzy_contains_empty_matches(haystack, needle, threshold) ==
    IF needle = "" THEN TRUE
    ELSE IF Lower(needle) \in Range(haystack) THEN TRUE
    ELSE partial_ratio(Lower(needle), haystack) >= threshold

_fuzzy_contains(haystack, needle, threshold) ==
    IF needle = "" THEN FALSE
    ELSE IF Lower(needle) \in Range(haystack) THEN TRUE
    ELSE partial_ratio(Lower(needle), haystack) >= threshold

RECURSIVE _dedup_from(_, _)
_dedup_from(xs, seen) ==
    IF xs = <<>> THEN <<>>
    ELSE IF Lower(Head(xs)) \in seen THEN _dedup_from(Tail(xs), seen)
         ELSE <<Head(xs)>> \o _dedup_from(Tail(xs), seen \cup {Lower(Head(xs))})

_dedup_keep_order(xs) == _dedup_from(xs, {})

\* a variant of _match_skills that reports every skill as missing: the
\* partition property must tell it from _match_skills
_match_skills_all_missing(resume_text_norm, skills, thresh) ==
    [matched |-> SelectIn(skills, {sk \in Range(skills) :
                                      _fuzzy_contains(resume_text_norm, sk, thresh)}),
     missing |-> skills]

\* (matched, missing) of _match_skills
_match_skills(resume_text_norm, skills, thresh) ==
    LET hit == {sk \in Range(skills) : _fuzzy_contains(resume_text_norm, sk, thresh)}
    IN  [matched |-> SelectIn(skills, hit),
         missing |-> SelectIn(skills, Range(skills) \ hit)]

\* words of _WORD_RE that TfidfVectorizer's token pattern (two or more word
\* characters) does not take as tokens: "c", "r", and "c++" alike
ShortTokens == {"c", "r"}

\* the vocabulary TfidfVectorizer.fit_transform builds from the two texts
Vocabulary(a, b) == (Range(a) \cup Range(b)) \ ShortTokens

\* main.py:166-169: fit_transform raises ValueError (empty vocabulary) when
\* neither text has a token; the call is outside the try of main.py:170
_tfidf_raises(jd_text, resume_text) ==
    /\ jd_text # <<>>
    /\ resume_text # <<>>
    /\ Vocabulary(jd_text, resume_text) = {}

\* in ten-thousandths; where _tfidf_raises holds there is no value (0 here)
_tfidf_cosine(jd_text, resume_text) ==
    IF jd_text = <<>> \/ resume_text = <<>> THEN 0
    ELSE IF _tfidf_raises(jd_text, resume_text) THEN 0
    ELSE (10000 * Cardinality((Range(jd_text) \cap Range(resume_text)) \ ShortTokens))
            \div Cardinality(Vocabulary(jd_text, resume_text))

\* in tenths of a year, capped at 20.0
RECURSIVE MaxOf(_)
MaxOf(xs) == IF xs = <<>> THEN 0 ELSE Max(Head(xs), MaxOf(Tail(xs)))

_extract_years_of_experience(years) == Min(MaxOf(years), 200)

\* a variant of RoundDiv that truncates: the property about the heuristic
\* score must tell it from RoundDiv
RoundDiv_floor(num, den) == num \div den

\* round(num / den) for num >= 0, den > 0
RoundDiv(num, den) == (2 * num + den) \div (2 * den)

\* _compute_prelim_score raises what _tfidf_cosine raises (main.py:196)
_compute_prelim_raises(jd_text, resume_text) == _tfidf_raises(jd_text, resume_text)

_compute_prelim_score(jd_text, jd_req_skills, jd_nice_skills, resume_text, resume_years) ==
    LET req == _dedup_keep_order(SelectIn(jd_req_skills, Range(jd_req_skills) \ {""}))
        nice == _dedup_keep_order(SelectIn(jd_nice_skills, Range(jd_nice_skills) \ {""}))
        m_req == _match_skills(resume_text, req, 85)
        m_nice == _match_skills(resume_text, nice, 85)
        R == Max(1, Len(req))
        N == Max(1, Len(nice))
        tfidf == _tfidf_cosine(jd_text, resume_text)
        exp100 == Min(_extract_years_of_experience(resume_years), 100)
        \* 100 * 100 * (0.55 rc + 0.20 nc + 0.20 tfidf + 0.05 exp) over R * N * 100
        num == 5500 * Len(m_req.matched) * N * 100 + 2000 * Len(m_nice.matched) * R * 100
                 + 20 * tfidf * R * N + 5 * exp100 * R * N * 100
    IN  [score |-> RoundDiv(num, R * N * 100),
         match_rating |-> "Preliminary",
         matched_skills |-> m_req.matched,
         missing_skills |-> Range(m_req.missing),
         rationale |-> None,
         analyzed_at |-> None,
         similarity |-> <<tfidf>>]

(***************************************************************************)
(* Analysis records and the per-resume analysis map.                       *)
(*                                                                         *)
(* analysis_results is NULL ("null"), a dict without a jd_ key ("legacy":  *)
(* what the upload stores, resume.py:141-145) or a dict keyed by jd_<id>   *)
(* ("keyed"); recs[j] is the record under jd_<j>, NoRec when the key is    *)
(* absent.  missing_skills is built by iterating a Python set, whose order *)
(* is unspecified: the list is modelled by its elements.  A field that a   *)
(* return path leaves out of the dict is "absent" (<<>> for similarity).   *)
(***************************************************************************)
NoRec == [absent |-> TRUE]

EmptyContainer == [j \in JobIds |-> NoRec]

Legacy == [fmt |-> "legacy", recs |-> EmptyContainer]
Null == [fmt |-> "null", recs |-> EmptyContainer]

\* main.py:290-297
NoRequiredRecord ==
    [score |-> 0, match_rating |-> "Weak", matched_skills |-> <<>>,
     missing_skills |-> {}, rationale |-> "no-required-skills",
     analyzed_at |-> "absent", similarity |-> <<>>]

\* main.py:301-306: the container the call works on
ContainerOf(raw) == IF raw.fmt = "keyed" THEN raw.recs ELSE EmptyContainer

\* a variant of Reuses that never reuses: the properties about the cache
\* must tell it from Reuses
Reuses_never(force, container, j) == FALSE

\* a variant of Reuses that looks at force only: the property about the
\* call after a failed write must tell it from Reuses
Reuses_unless_forced(force, container, j) == ~force

\* main.py:309: reuse unless force or missing
Reuses(force, container, j) == ~force /\ container[j] # NoRec

\* main.py:319
SkippedResult ==
    [shape |-> "dict", matched_skills |-> <<>>, rationale |-> "skipped-ai"]

\* main.py:328: the parsed skills the fallback reads
ParsedSkills(c) ==
    IF Resume(c).parsed_skills = None THEN <<>> ELSE Resume(c).parsed_skills

\* main.py:329: s.lower() raises on a non-string
FallbackRaises(c) == NonStr \in Range(ParsedSkills(c))

\* main.py:329-334
FallbackResult(c, jd) ==
    LET union == LowerSet(jd.required_skills \o jd.nice_to_have_skills)
    IN  [shape |-> "dict",
         matched_skills |->
            SelectIn(ParsedSkills(c), {s \in Range(ParsedSkills(c)) : Lower(s) \in union}),
         rationale |-> "fallback-ai-unavailable"]

\* a variant of CanonicalOf that keeps the evaluator's casing: the property
\* about canonical names must tell it from CanonicalOf
CanonicalOf_as_given(low, labels, dflt) == dflt

\* main.py:343: {s.lower(): s for s in required + nice}, the last one wins
RECURSIVE CanonicalOf(_, _, _)
CanonicalOf(low, labels, dflt) ==
    IF labels = <<>> THEN dflt
    ELSE IF Lower(labels[Len(labels)]) = low THEN labels[Len(labels)]
         ELSE CanonicalOf(low, SubSeq(labels, 1, Len(labels) - 1), dflt)

\* main.py:344-350
RECURSIVE NormalizeFrom(_, _, _)
NormalizeFrom(matched_ai, seen_lower, labels) ==
    IF matched_ai = <<>> THEN <<>>
    ELSE LET low == Lower(Head(matched_ai))
         IN  IF low \in seen_lower THEN NormalizeFrom(Tail(matched_ai), seen_lower, labels)
             ELSE <<CanonicalOf(low, labels, Head(matched_ai))>>
                    \o NormalizeFrom(Tail(matched_ai), seen_lower \cup {low}, labels)

\* main.py:340, 346: ai_result.get on a non-dict and skill.lower() on a
\* non-string raise AttributeError
ComputeRaises(ai_result) ==
    \/ ai_result.shape # "dict"
    \/ NonStr \in Range(ai_result.matched_skills)

\* a variant of RatingOf with inclusive thresholds: the property about the
\* thresholds must tell it from RatingOf
RatingOf_inclusive(total_score) ==
    IF total_score >= StrongAboveE2 THEN "Strong"
    ELSE IF total_score >= GoodAboveE2 THEN "Good"
    ELSE "Weak"

\* main.py:366-371
RatingOf(total_score) ==
    IF total_score > StrongAboveE2 THEN "Strong"
    ELSE IF total_score > GoodAboveE2 THEN "Good"
    ELSE "Weak"

\* a variant of TotalScore without the nice-to-have part: the property about
\* the formula must tell it from TotalScore
TotalScore_required_only(matched_required_count, required_n, matched_nice_count, nice_total) ==
    RoundDiv(9000 * matched_required_count, Max(required_n, 1))

\* a variant of TotalScore that gives 10 points per matched nice-to-have
\* skill: the score properties must tell it from TotalScore
TotalScore_ten_per_nice(matched_required_count, required_n, matched_nice_count, nice_total) ==
    RoundDiv(9000 * matched_required_count, Max(required_n, 1))
        + 1000 * matched_nice_count

\* main.py:356-365, in hundredths
TotalScore(matched_required_count, required_n, matched_nice_count, nice_total) ==
    LET required_total == Max(required_n, 1)
    IN  IF nice_total > 0
        THEN RoundDiv(9000 * matched_required_count * nice_total
                        + 1000 * matched_nice_count * required_total,
                      required_total * nice_total)
        ELSE RoundDiv(9000 * matched_required_count, required_total)

\* main.py:336-387: the record built from the evaluator's (or stand-in) result
AnalysisObj(c, jd, ai_result) ==
    LET labels == jd.required_skills \o jd.nice_to_have_skills
        required_set_lower == LowerSet(jd.required_skills)
        nice_set_lower == LowerSet(jd.nice_to_have_skills)
        matched_normalized == NormalizeFrom(ai_result.matched_skills, {}, labels)
        matched_required_lower == LowerSet(matched_normalized) \cap required_set_lower
        missing_required ==
            {CanonicalOf(r, labels, r) : r \in required_set_lower \ matched_required_lower}
        matched_nice_lower == LowerSet(matched_normalized) \cap nice_set_lower
        total_score == TotalScore(Cardinality(matched_required_lower),
                                  Cardinality(required_set_lower),
                                  Cardinality(matched_nice_lower),
                                  Cardinality(nice_set_lower))
    IN  [score |-> total_score,
         match_rating |-> RatingOf(total_score),
         matched_skills |-> matched_normalized,
         missing_skills |-> missing_required,
         rationale |-> ai_result.rationale,
         analyzed_at |-> "set",
         similarity |-> <<Round4(SimTable[c, jd.id])>>]

\* main.py:389-390: container[key] = analysis_obj
PutRecord(container, j, analysis_obj) == [container EXCEPT ![j] = analysis_obj]

\* main.py:390-396: the column after the commit, or after the rollback
Persisted(old, container, commit_ok) ==
    IF commit_ok THEN [fmt |-> "keyed", recs |-> container] ELSE old

(***************************************************************************)
(* The external evaluator (services.evaluate_candidate_for_jd): a black    *)
(* box that returns parsed JSON or raises.  Returned values of the model:  *)
(* every skill matched (in other casings, with a duplicate) without a      *)
(* rationale key, and a matched_skills list holding a non-string.          *)
(***************************************************************************)
EvaluatorReturns ==
    { [shape |-> "dict", matched_skills |-> <<"py", "sql", "go", "PY">>,
       rationale |-> "absent"],
      [shape |-> "dict", matched_skills |-> <<NonStr>>, rationale |-> "ai-rationale"] }

Raise == [shape |-> "raise"]

EvaluatorOutcomes == EvaluatorReturns \cup {Raise}

\* the evaluator answering well and the database accepting every commit
HealthyOutcomes ==
    {[shape |-> "dict", matched_skills |-> <<"py", "sql", "go", "PY">>,
      rationale |-> "absent"]}

(***************************************************************************)
(* Requests.  A request holds one unit of work per resume it handles:      *)
(*   pc        "none" (not part of the request), "queued" (task created,   *)
(*             not yet past the semaphore), "eval" (awaiting the           *)
(*             evaluator), "done" (returned), "raised"                     *)
(*   via       the return path taken                                       *)
(*   container the local variable container of ensure_analysis_for_jd      *)
(*   result    the record returned                                         *)
(* and, as history of the call: read (the call read analysis_results),     *)
(* had_prior (has_prior of the batch filter), evals (evaluator             *)
(* invocations), outcome (what the evaluator did), commit, wrote (the jd_  *)
(* keys whose entry the write changed with respect to container), clean    *)
(* (no other call wrote the resume's map since the call began).            *)
(* The request keeps, as history, partial: the units that had returned     *)
(* when the request answered with an error.                                *)
(* out is the response body of a request of kind "prelim", which is built  *)
(* from the stored maps when the request answers.                          *)
(***************************************************************************)
Resumes == DOMAIN store

NoUnit ==
    [pc |-> "none", via |-> "", container |-> EmptyContainer, result |-> NoRec,
     read |-> FALSE, had_prior |-> FALSE, evals |-> 0, outcome |-> "",
     commit |-> "", wrote |-> {}, clean |-> TRUE]

Queued == [NoUnit EXCEPT !.pc = "queued"]

IdleRequest ==
    [kind |-> "idle", jd |-> 0, force |-> FALSE, skip_ai |-> FALSE,
     units |-> [c \in Resumes |-> NoUnit], resp |-> "none", partial |-> {},
     out |-> <<>>]

Final(u) == u.pc \in {"none", "done", "raised"}

\* evaluator calls in flight, over all requests
InFlight ==
    Cardinality({<<s, c>> \in Slots \X Resumes : requests[s].units[c].pc = "eval"})

\* holders of one request's semaphore: the units inside "async with"
Holders(r) == {c \in Resumes : r.units[c].pc = "eval"}

(***************************************************************************)
(* ensure_analysis_for_jd (main.py:265-398) as two operators on a unit.    *)
(***************************************************************************)
\* a variant of BeginEnsure without the return of main.py:290-297: the
\* property about jobs without required skills must tell it from BeginEnsure
BeginEnsure_no_short_circuit(u, jd, force, raw) ==
    LET container == ContainerOf(raw)
    IN  IF Reuses(force, container, jd.id)
        THEN [u EXCEPT !.pc = "done", !.via = "cached", !.read = TRUE,
                       !.container = container, !.result = container[jd.id]]
        ELSE [u EXCEPT !.pc = "compute", !.read = TRUE, !.container = container]

\* main.py:290-310: up to the reuse check.  pc "compute" means: go on to
\* main.py:312.
BeginEnsure(u, jd, force, raw) ==
    IF jd.required_skills = <<>>
    THEN [u EXCEPT !.pc = "done", !.via = "norequired", !.result = NoRequiredRecord]
    ELSE LET container == ContainerOf(raw)
         IN  IF Reuses(force, container, jd.id)
             THEN [u EXCEPT !.pc = "done", !.via = "cached", !.read = TRUE,
                            !.container = container, !.result = container[jd.id]]
             ELSE [u EXCEPT !.pc = "compute", !.read = TRUE, !.container = container]

\* a variant of FinishEnsure that lets a failed commit propagate: the
\* property about persistence failures must tell it from FinishEnsure
FinishEnsure_commit_raises(u, c, jd, ai_result, commit_ok) ==
    IF ComputeRaises(ai_result)
    THEN [u EXCEPT !.pc = "raised"]
    ELSE IF commit_ok
         THEN [u EXCEPT !.pc = "done", !.via = "computed",
                        !.result = AnalysisObj(c, jd, ai_result), !.commit = "ok"]
         ELSE [u EXCEPT !.pc = "raised", !.commit = "failed"]

\* main.py:336-398: from the evaluator's (or stand-in) result to the return.
\* container stays the map read at main.py:301-306; the write is ColumnAfter.
FinishEnsure(u, c, jd, ai_result, commit_ok) ==
    IF ComputeRaises(ai_result)
    THEN [u EXCEPT !.pc = "raised"]
    ELSE [u EXCEPT !.pc = "done", !.via = "computed",
                   !.result = AnalysisObj(c, jd, ai_result),
                   !.commit = IF commit_ok THEN "ok" ELSE "failed"]

\* main.py:318-334: the result the computation goes on with, once the
\* evaluator returned or raised
AfterEvaluator(u, c, jd, outcome, commit_ok) ==
    IF outcome = Raise
    THEN IF FallbackRaises(c)
         THEN [u EXCEPT !.pc = "raised", !.outcome = "raise"]
         ELSE FinishEnsure([u EXCEPT !.outcome = "raise"], c, jd,
                           FallbackResult(c, jd), commit_ok)
    ELSE FinishEnsure([u EXCEPT !.outcome = "return"], c, jd,
                      [outcome EXCEPT !.rationale =
                          IF @ = "absent" THEN "no-rationale-provided" ELSE @],
                      commit_ok)

\* the whole synchronous prefix of a call: it ends returned, raised or
\* awaiting the evaluator
CallEnsure(u, c, jd, force, skip_ai, raw, commit_ok) ==
    LET b == BeginEnsure(u, jd, force, raw)
    IN  IF b.pc # "compute" THEN b
        ELSE IF skip_ai THEN FinishEnsure(b, c, jd, SkippedResult, commit_ok)
        ELSE [b EXCEPT !.pc = "eval", !.evals = 1]

\* main.py:389-396: the analysis_results column after unit u (before the
\* step: v) took a step
ColumnAfter(v, u, j, old) ==
    IF v.commit = "" /\ u.commit # ""
    THEN Persisted(old, PutRecord(u.container, j, u.result), u.commit = "ok")
    ELSE old

(***************************************************************************)
(* calculate_candidate_match (main.py:54-94) and the unit of work of       *)
(* full_analysis_for_jd (main.py:485-519).                                 *)
(***************************************************************************)
\* isinstance(resume.analysis_results, dict) and key in resume.analysis_results
HasKey(raw, j) == raw.fmt \in {"legacy", "keyed"} /\ raw.recs[j] # NoRec

calculate_candidate_match(c, jd, raw) ==
    IF HasKey(raw, jd.id)
    THEN [raw.recs[jd.id] EXCEPT !.rationale = None]
    ELSE _compute_prelim_score(jd.text, jd.required_skills, jd.nice_to_have_skills,
                               Resume(c).text, Resume(c).years)

\* a variant of Filtered with sim <= 0.15: the property about the filter
\* must tell it from Filtered
Filtered_inclusive(sim, force, has_prior) ==
    SimE4(sim) <= SimThresholdE4 /\ ~force /\ ~has_prior

\* main.py:494: the semantic pre-filter
Filtered(sim, force, has_prior) ==
    SimE4(sim) < SimThresholdE4 /\ ~force /\ ~has_prior

\* main.py:485-519, from the semaphore on
EvaluateUnit(u, c, jd, force, raw) ==
    LET sim == SimTable[c, jd.id]
        has_prior == HasKey(raw, jd.id)
        w == [u EXCEPT !.had_prior = has_prior]
    IN  IF Filtered(sim, force, has_prior)
        THEN LET prelim == calculate_candidate_match(c, jd, raw)
             IN  [w EXCEPT !.pc = "done", !.via = "filtered",
                           !.result = [prelim EXCEPT
                                          !.match_rating = "Preliminary",
                                          !.rationale = "heuristic-low-similarity",
                                          !.analyzed_at = None,
                                          !.similarity = <<Round4(sim)>>]]
        ELSE CallEnsure(w, c, jd, force, FALSE, raw, TRUE)

(***************************************************************************)
(* Responses.  A batch answers when every unit returned (the list sorted   *)
(* by score, descending, stable), or as soon as one unit raised:           *)
(* asyncio.gather passes the first exception on and leaves the other       *)
(* tasks running.                                                          *)
(***************************************************************************)
\* a variant of InsertByScore that appends: the ranking property must tell
\* it from InsertByScore
InsertByScore_append(x, sorted) == sorted \o <<x>>

RECURSIVE InsertByScore(_, _)
InsertByScore(x, sorted) ==
    IF sorted = <<>> THEN <<x>>
    ELSE IF Head(sorted).score < x.score THEN <<x>> \o sorted
         ELSE <<Head(sorted)>> \o InsertByScore(x, Tail(sorted))

\* schemas.DetailedCandidate
DetailedCandidate(c, rec) ==
    [resume |-> c, score |-> rec.score, match_rating |-> rec.match_rating,
     matched_skills |-> rec.matched_skills, missing_skills |-> rec.missing_skills,
     rationale |-> rec.rationale, analyzed_at |-> rec.analyzed_at,
     similarity |-> rec.similarity]

\* list.sort(key=score, reverse=True) of the results, taken in id order
RECURSIVE SortedResults(_, _)
SortedResults(r, ids) ==
    IF ids = {} THEN <<>>
    ELSE LET c == CHOOSE x \in ids : \A y \in ids : y <= x
         IN  InsertByScore(DetailedCandidate(c, r.units[c].result),
                           SortedResults(r, ids \ {c}))

\* the response body of a request that answered 200
Out(r) == SortedResults(r, {c \in Resumes : r.units[c].pc = "done"})

Answer(r) ==
    IF r.resp # "none" THEN r
    ELSE IF \E c \in Resumes : r.units[c].pc = "raised"
         THEN [r EXCEPT !.resp = "error",
                        !.partial = {c \in Resumes : r.units[c].pc = "done"}]
    ELSE IF \A c \in Resumes : Final(r.units[c]) THEN [r EXCEPT !.resp = "ok"]
    ELSE r

(***************************************************************************)
(* analyze_preliminary_only (main.py:527-588): a request of kind "prelim". *)
(* Its units are the targets, called one after the other; a candidate that *)
(* is no target has had_prior set.  The handler runs from the return of    *)
(* one call into the next ones without an await, up to the first call that *)
(* awaits the evaluator, or to its response.                               *)
(***************************************************************************)
\* a variant of PrelimTargets that takes every resume: the property about
\* the preliminary-only analysis must tell it from PrelimTargets
PrelimTargets_all(db, j) == DOMAIN db

\* main.py:547
PrelimTargets(db, j) == {c \in DOMAIN db : ~HasKey(db[c], j)}

\* main.py:550-555: the calls for the targets ids that are still to come,
\* in the order of the list, while they return without awaiting; an
\* exception of a call is caught
RECURSIVE RunTargets(_, _, _)
RunTargets(r, db, ids) ==
    IF ids = {} \/ \E c \in DOMAIN db : r.units[c].pc = "eval" THEN r
    ELSE LET c == CHOOSE x \in ids : \A y \in ids : x <= y
             u == CallEnsure(r.units[c], c, JobDescription(r.jd), FALSE, FALSE,
                             db[c], TRUE)
         IN  RunTargets([r EXCEPT !.units[c] = u], db, ids \ {c})

\* main.py:559-585: one entry per resume, from the stored record or from
\* calculate_candidate_match; main.py:587: sorted
RECURSIVE PreliminaryOut(_, _, _)
PreliminaryOut(j, db, ids) ==
    IF ids = {} THEN <<>>
    ELSE LET c == CHOOSE x \in ids : \A y \in ids : y <= x
             entry == IF HasKey(db[c], j) THEN db[c].recs[j]
                      ELSE [calculate_candidate_match(c, JobDescription(j), db[c])
                              EXCEPT !.rationale = "heuristic-awaiting-full-analysis"]
         IN  InsertByScore(DetailedCandidate(c, entry),
                           PreliminaryOut(j, db, ids \ {c}))

\* a request after one of its units took a step, db being the stored maps
\* after that step
Continue(r, db) ==
    IF r.kind # "prelim" THEN Answer(r)
    ELSE LET q == RunTargets(r, db, {c \in DOMAIN db : r.units[c].pc = "queued"})
         IN  IF \A c \in DOMAIN db : Final(q.units[c])
             THEN [q EXCEPT !.resp = "ok", !.out = PreliminaryOut(q.jd, db, DOMAIN db)]
             ELSE q


(***************************************************************************)
(* History of successive calls: seq[c, j] holds the last (at most two)     *)
(* calls ensure_analysis_for_jd(c, j, force=False) that returned one after *)
(* the other with no other writer of c's map in between or meanwhile:      *)
(* what each returned, how often it invoked the evaluator, and whether its *)
(* record was in the stored map when it returned.                          *)
(***************************************************************************)
LastTwo(xs) == IF Len(xs) > 2 THEN SubSeq(xs, Len(xs) - 1, Len(xs)) ELSE xs

SeqAfter(c, j, force, u, wrote_now) ==
    [p \in Resumes \X JobIds |->
        IF p[1] # c THEN seq[p]
        ELSE IF p[2] # j THEN (IF wrote_now THEN <<>> ELSE seq[p])
        ELSE IF u.pc = "raised" THEN <<>>
        ELSE IF u.pc = "done" /\ u.via \in {"cached", "computed"}
             THEN IF ~force /\ u.clean
                  THEN LastTwo(Append(seq[p],
                          [ret |-> u.result, evals |-> u.evals,
                           stored |-> u.via = "cached" \/ u.commit = "ok"]))
                  ELSE <<>>
        ELSE seq[p]]

(***************************************************************************)
(* One step of unit c of request s: r0 is the request and v the unit       *)
(* before the step, u the unit after it.  The step writes the column when  *)
(* it reached the commit, and answers the request when that is due.        *)
(***************************************************************************)
Step(s, r0, c, v, u0) ==
    LET j == r0.jd
        wrote_now == v.commit = "" /\ u0.commit # ""
        column == ColumnAfter(v, u0, j, store[c])
        u == [u0 EXCEPT !.wrote = IF wrote_now
                                  THEN {k \in JobIds : column.recs[k] # u0.container[k]}
                                  ELSE @]
        r1 == Continue([r0 EXCEPT !.units[c] = u], [store EXCEPT ![c] = column])
    IN  /\ store' = [store EXCEPT ![c] = column]
        /\ requests' =
             [t \in Slots |->
                IF t = s THEN r1
                ELSE IF wrote_now /\ requests[t].units[c].pc = "eval"
                     THEN [requests[t] EXCEPT !.units[c].clean = FALSE]
                     ELSE requests[t]]
        /\ seq' = SeqAfter(c, j, r0.force, u, wrote_now)
        /\ UNCHANGED <<ranking, probe, uploads>>

(***************************************************************************)
(* Actions                                                                 *)
(***************************************************************************)
\* a new request takes the first idle slot (slots only name the requests in
\* progress)
FreeSlot(s) ==
    /\ requests[s].kind = "idle"
    /\ \A t \in Slots : t < s => requests[t].kind # "idle"

\* POST /candidates/analyze (main.py:425-455) when skip_ai is FALSE; with
\* skip_ai a direct call ensure_analysis_for_jd(resume, jd, db, force, skip_ai)
AnalyzeCandidate(s, c, j, force, skip_ai, commit_ok) ==
    /\ FreeSlot(s)
    /\ started < MaxStarts
    /\ started' = started + 1
    /\ LET r0 == [IdleRequest EXCEPT !.kind = "single", !.jd = j, !.force = force,
                                     !.skip_ai = skip_ai]
       IN  Step(s, r0, c, NoUnit,
                CallEnsure(NoUnit, c, JobDescription(j), force, skip_ai, store[c],
                           commit_ok))

\* GET /candidates/full-analysis/{jd_id} (main.py:457-483, 521): up to the
\* await of asyncio.gather; one task per resume is created
FullAnalysis(s, j, force) ==
    /\ FreeSlot(s)
    /\ started < MaxStarts
    /\ started' = started + 1
    /\ requests' = [requests EXCEPT ![s] =
          Answer([IdleRequest EXCEPT !.kind = "batch", !.jd = j, !.force = force,
                                     !.units = [c \in Resumes |-> Queued]])]
    /\ UNCHANGED <<store, seq, ranking, probe, uploads>>

\* one task of the batch gets past the semaphore and runs up to its first
\* await or its return (main.py:485-519).  Tasks start in the order they
\* were created (the event loop's ready queue and the semaphore's waiters
\* are FIFO).
Evaluate(s, c) ==
    LET r == requests[s]
    IN  /\ r.kind = "batch"
        /\ r.units[c].pc = "queued"
        /\ \A d \in Resumes : d < c => r.units[d].pc # "queued"
        /\ Cardinality(Holders(r)) < SemaphoreLimit
        /\ Step(s, r, c, r.units[c],
                EvaluateUnit(r.units[c], c, JobDescription(r.jd), r.force, store[c]))
        /\ UNCHANGED started

\* the evaluator returns or raises, and the call runs to its end
\* (main.py:322-398)
EvaluatorReturn(s, c, outcome, commit_ok) ==
    LET r == requests[s]
    IN  /\ r.units[c].pc = "eval"
        /\ Step(s, r, c, r.units[c],
                AfterEvaluator(r.units[c], c, JobDescription(r.jd), outcome, commit_ok))
        /\ UNCHANGED started

\* POST /candidates/analyze/preliminary/{jd_id} (main.py:527-588) up to
\* its first await, or to its response when no call awaits
AnalyzePreliminaryOnly(s, j) ==
    /\ FreeSlot(s)
    /\ started < MaxStarts
    /\ started' = started + 1
    /\ LET prelim_targets == PrelimTargets(store, j)
           r0 == [IdleRequest EXCEPT
                    !.kind = "prelim", !.jd = j,
                    !.units = [c \in Resumes |->
                                 IF c \in prelim_targets
                                 THEN [Queued EXCEPT !.had_prior = HasKey(store[c], j)]
                                 ELSE [NoUnit EXCEPT !.had_prior = TRUE]]]
       IN  requests' = [requests EXCEPT ![s] = Continue(r0, store)]
    /\ UNCHANGED <<store, seq, ranking, probe, uploads>>

\* the response is delivered and every task of the request has ended
Release(s) ==
    /\ requests[s].resp # "none"
    /\ \A c \in Resumes : Final(requests[s].units[c])
    /\ requests' = [requests EXCEPT ![s] = IdleRequest]
    /\ UNCHANGED <<store, started, seq, ranking, probe, uploads>>

(***************************************************************************)
(* Specifications                                                          *)
(***************************************************************************)
\* no resume uploaded, no upload job
NoUploads == [stored |-> 0, jobs |-> <<>>]

\* no ranking answered, no scoring function applied
NoRanking == [jd |-> 0, out |-> <<>>]

NoProbe == [kind |-> "none"]

InitWith(ids) ==
    /\ store = [c \in ids |-> IF c = 2 THEN Null ELSE Legacy]
    /\ requests = [s \in Slots |-> IdleRequest]
    /\ started = 0
    /\ seq = [p \in ids \X JobIds |-> <<>>]
    /\ ranking = NoRanking
    /\ uploads = NoUploads
    /\ probe = NoProbe

\* two resumes: one as the upload stores it, one without analysis_results
Init == InitWith({1, 2})

Next ==
    \/ \E s \in Slots, c \in Resumes, j \in JobIds, force \in BOOLEAN,
          skip_ai \in BOOLEAN, commit_ok \in BOOLEAN :
          AnalyzeCandidate(s, c, j, force, skip_ai, commit_ok)
    \/ \E s \in Slots, j \in JobIds, force \in BOOLEAN : FullAnalysis(s, j, force)
    \/ \E s \in Slots, c \in Resumes : Evaluate(s, c)
    \/ \E s \in Slots, c \in Resumes, outcome \in EvaluatorOutcomes,
          commit_ok \in BOOLEAN : EvaluatorReturn(s, c, outcome, commit_ok)
    \/ \E s \in Slots : Release(s)

Spec == Init /\ [][Next]_vars

(***************************************************************************)
(* The same program with six resumes under a narrower load: requests for   *)
(* job 1 only, through the two endpoints, one batch at a time, the         *)
(* evaluator answering well and every commit succeeding.  Every behaviour  *)
(* of SpecAdm is a behaviour of the program.  A batch then has more tasks  *)
(* than its semaphore admits.                                              *)
(***************************************************************************)
InitAdm == InitWith(AllResumeIds)

NextAdm ==
    \/ \E s \in Slots, c \in Resumes, force \in BOOLEAN :
          AnalyzeCandidate(s, c, 1, force, FALSE, TRUE)
    \/ \E s \in Slots, force \in BOOLEAN :
          /\ \A t \in Slots : requests[t].kind # "batch"
          /\ FullAnalysis(s, 1, force)
    \/ \E s \in Slots, c \in Resumes : Evaluate(s, c)
    \/ \E s \in Slots, c \in Resumes, outcome \in HealthyOutcomes :
          EvaluatorReturn(s, c, outcome, TRUE)
    \/ \E s \in Slots : Release(s)

SpecAdm == InitAdm /\ [][NextAdm]_vars

(***************************************************************************)
(* The same program started later in its life: resume 1 already holds the  *)
(* record of an evaluation for job 2 (every label matched), resume 2 has   *)
(* no analysis_results.                                                    *)
(***************************************************************************)
StoredRecord ==
    AnalysisObj(1, JobDescription(2),
                [shape |-> "dict", matched_skills |-> <<"py", "sql", "go", "PY">>,
                 rationale |-> "no-rationale-provided"])

InitStored ==
    /\ store = [c \in {1, 2} |->
                  IF c = 1
                  THEN [fmt |-> "keyed", recs |-> PutRecord(EmptyContainer, 2, StoredRecord)]
                  ELSE Null]
    /\ requests = [s \in Slots |-> IdleRequest]
    /\ started = 0
    /\ seq = [p \in {1, 2} \X JobIds |-> <<>>]
    /\ ranking = NoRanking
    /\ uploads = NoUploads
    /\ probe = NoProbe

SpecStored == InitStored /\ [][Next]_vars

(***************************************************************************)
(* The ranking endpoint, GET /candidates/{jd_id}, beside single-candidate  *)
(* analyses whose commits succeed.  get_candidate_matches is a plain       *)
(* function: it runs from its query to its return without an await.        *)
(***************************************************************************)
\* schemas.CandidateMatch
CandidateMatch(c, rec) ==
    [resume |-> c, score |-> rec.score, match_rating |-> rec.match_rating,
     matched_skills |-> rec.matched_skills, missing_skills |-> rec.missing_skills,
     analyzed_at |-> rec.analyzed_at, similarity |-> rec.similarity]

\* main.py:420-422: the results in the order of the query (by id), then
\* list.sort(key=score, reverse=True)
RECURSIVE RankedFrom(_, _)
RankedFrom(j, ids) ==
    IF ids = {} THEN <<>>
    ELSE LET c == CHOOSE x \in ids : \A y \in ids : y <= x
         IN  InsertByScore(CandidateMatch(c, calculate_candidate_match(
                                                c, JobDescription(j), store[c])),
                           RankedFrom(j, ids \ {c}))

\* a variant of GetCandidateMatches that stores what it computed: the
\* read-only property must tell it from GetCandidateMatches
GetCandidateMatches_storing(j) ==
    /\ ranking' = [jd |-> j, out |-> RankedFrom(j, Resumes)]
    /\ store' = [c \in Resumes |->
                   [fmt |-> "keyed",
                    recs |-> PutRecord(ContainerOf(store[c]), j,
                                       calculate_candidate_match(c, JobDescription(j),
                                                                 store[c]))]]
    /\ UNCHANGED <<requests, started, seq, probe, uploads>>

\* get_candidate_matches (main.py:403-423)
GetCandidateMatches(j) ==
    /\ ranking' = [jd |-> j, out |-> RankedFrom(j, Resumes)]
    /\ UNCHANGED <<store, requests, started, seq, probe, uploads>>

NextRank ==
    \/ \E s \in Slots, c \in Resumes, j \in JobIds, force \in BOOLEAN :
          AnalyzeCandidate(s, c, j, force, FALSE, TRUE)
    \/ \E s \in Slots, c \in Resumes, outcome \in HealthyOutcomes \cup {Raise} :
          EvaluatorReturn(s, c, outcome, TRUE)
    \/ \E s \in Slots : Release(s)
    \/ \E j \in JobIds : GetCandidateMatches(j)

SpecRank == InitStored /\ [][NextRank]_vars

(***************************************************************************)
(* A batch for job 1 beside single analyses for job 2 and the ranking of   *)
(* job 1: what a ranking shows of the work of a batch that answered with   *)
(* an error.                                                               *)
(***************************************************************************)
NextPartial ==
    \/ \E s \in Slots, force \in BOOLEAN : FullAnalysis(s, 1, force)
    \/ \E s \in Slots, c \in Resumes : Evaluate(s, c)
    \/ \E s \in Slots, c \in Resumes, outcome \in EvaluatorOutcomes :
          EvaluatorReturn(s, c, outcome, TRUE)
    \/ \E s \in Slots, c \in Resumes : AnalyzeCandidate(s, c, 2, FALSE, FALSE, TRUE)
    \/ \E s \in Slots : Release(s)
    \/ GetCandidateMatches(1)

SpecPartial == Init /\ [][NextPartial]_vars

(***************************************************************************)
(* The preliminary-only analysis beside single analyses, from a state with *)
(* a stored record (resume 1, job 2).                                      *)
(***************************************************************************)
NextPreliminary ==
    \/ \E s \in Slots, j \in JobIds : AnalyzePreliminaryOnly(s, j)
    \/ \E s \in Slots, c \in Resumes, j \in JobIds, force \in BOOLEAN :
          AnalyzeCandidate(s, c, j, force, FALSE, TRUE)
    \/ \E s \in Slots, c \in Resumes, outcome \in EvaluatorOutcomes,
          commit_ok \in BOOLEAN : EvaluatorReturn(s, c, outcome, commit_ok)
    \/ \E s \in Slots : Release(s)

SpecPreliminary == InitStored /\ [][NextPreliminary]_vars

(***************************************************************************)
(* The evaluator seen through call_gemini_api (services.py:95-128,         *)
(* 159-210): per model of GENERATION_FALLBACKS the service fails, answers  *)
(* with an empty text or answers with JSON.  The tenacity retry around     *)
(* call_gemini_api never acts, since the function catches every failure.   *)
(***************************************************************************)
GENERATION_FALLBACKS ==
    <<"gemini-2.0-flash", "gemini-2.0-flash-lite", "gemini-1.5-flash",
      "gemini-2.5-flash-lite", "gemini-2.5-flash", "gemini-2.5-pro">>

\* services.py:118-128 for the schema of evaluate_candidate_for_jd
\* (services.py:169-176): arrays become [], the string becomes ''
EmptyStructure == [shape |-> "dict", matched_skills |-> <<>>, rationale |-> ""]

\* the JSON a model answers with
GeneratedJson ==
    [shape |-> "dict", matched_skills |-> <<"py", "sql", "go", "PY">>,
     rationale |-> "ai-rationale"]

\* a variant of GenerateFrom that raises when every model failed: the
\* property about the evaluator outage must tell it from GenerateFrom
GenerateFrom_raising(i, answers) ==
    IF \A k \in i..Len(GENERATION_FALLBACKS) : answers[k] = "fail" THEN Raise
    ELSE LET k == CHOOSE x \in i..Len(GENERATION_FALLBACKS) :
                     /\ answers[x] # "fail"
                     /\ \A y \in i..(x - 1) : answers[y] = "fail"
         IN  IF answers[k] = "empty_text"
             THEN [shape |-> "dict", matched_skills |-> <<>>, rationale |-> "absent"]
             ELSE GeneratedJson

\* services.py:101-128: the loop over the models from the i-th on
RECURSIVE GenerateFrom(_, _)
GenerateFrom(i, answers) ==
    IF i > Len(GENERATION_FALLBACKS) THEN EmptyStructure
    ELSE IF answers[i] = "fail" THEN GenerateFrom(i + 1, answers)
    ELSE IF answers[i] = "empty_text"
         THEN [shape |-> "dict", matched_skills |-> <<>>, rationale |-> "absent"]
    ELSE GeneratedJson

call_gemini_api(answers) == GenerateFrom(1, answers)

\* services.py:209-210
evaluate_candidate_for_jd(answers) == call_gemini_api(answers)

\* every model fails
Outage == [i \in 1..Len(GENERATION_FALLBACKS) |-> "fail"]

\* the outage, the first model answering, the first model answering with an
\* empty text, only the last model answering
GenerationAnswers ==
    {Outage,
     [i \in 1..Len(GENERATION_FALLBACKS) |-> "json"],
     [i \in 1..Len(GENERATION_FALLBACKS) |-> "empty_text"],
     [i \in 1..Len(GENERATION_FALLBACKS) |->
         IF i = Len(GENERATION_FALLBACKS) THEN "json" ELSE "fail"]}

NextOutage ==
    \/ \E s \in Slots, c \in Resumes, j \in JobIds, force \in BOOLEAN :
          AnalyzeCandidate(s, c, j, force, FALSE, TRUE)
    \/ \E s \in Slots, c \in Resumes, answers \in GenerationAnswers,
          commit_ok \in BOOLEAN :
          EvaluatorReturn(s, c, evaluate_candidate_for_jd(answers), commit_ok)
    \/ \E s \in Slots : Release(s)

SpecOutage == Init /\ [][NextOutage]_vars

(***************************************************************************)
(* The scoring functions on their own: probe holds the arguments of one    *)
(* application and, once applied, its result.                              *)
(*   high-fidelity path: ensure_analysis_for_jd for a job with the given   *)
(*     skill lists, the evaluator returning the given matched_skills       *)
(*   heuristic path: _compute_prelim_score on the given lists and texts    *)
(* The lists hold other casings of one label, a label in both lists, an    *)
(* empty label, labels outside the job's lists and duplicates.             *)
(***************************************************************************)
\* length of the evaluator's matched_skills list
MaxMatched == 3

SeqsUpTo(S, n) == UNION {[1..k -> S] : k \in 0..n}

RequiredLists ==
    {<<>>, <<"Py">>, <<"Py", "SQL">>, <<"Py", "SQL", "Rust">>, <<"Py", "PY">>, <<"Py", "">>}

NiceLists ==
    {<<>>, <<"Go">>, <<"PY">>, <<"Go", "Rust">>, <<"Go", "GO">>, <<"", "Go">>}

MatchedLabels == {"py", "PY", "sql", "Go", "rust", "java"}

JdTexts == {<<>>, <<"py">>, <<"py", "sql", "engineer">>}

ResumeTexts == {<<>>, <<"py">>, <<"py", "sql", "go", "rust">>, <<"sqll", "goo">>}

YearsMentions == {<<>>, <<70>>, <<250>>}

\* a job row with the given skill lists
ProbeJob(required, nice) ==
    [JobDescription(1) EXCEPT !.required_skills = required,
                              !.nice_to_have_skills = nice]

InitScore ==
    /\ store = [c \in {1, 2} |-> IF c = 2 THEN Null ELSE Legacy]
    /\ requests = [s \in Slots |-> IdleRequest]
    /\ started = 0
    /\ seq = [p \in {1, 2} \X JobIds |-> <<>>]
    /\ ranking = NoRanking
    /\ uploads = NoUploads
    /\ \/ probe \in [kind : {"hifi_in"}, required : RequiredLists, nice : NiceLists,
                      matched : SeqsUpTo(MatchedLabels, MaxMatched), jd_text : {<<>>},
                      resume_text : {<<>>}, years : {<<>>}, result : {NoRec}]
       \/ probe \in [kind : {"prelim_in"}, required : RequiredLists, nice : NiceLists,
                      matched : {<<>>}, jd_text : JdTexts,
                      resume_text : ResumeTexts, years : YearsMentions, result : {NoRec}]

\* ensure_analysis_for_jd(resume 1, job, force=False) on an empty map, run
\* to its return, the evaluator answering probe.matched
ScoreHiFi ==
    /\ probe.kind = "hifi_in"
    /\ LET jd == ProbeJob(probe.required, probe.nice)
           b == CallEnsure(NoUnit, 1, jd, FALSE, FALSE, Null, TRUE)
           u == IF b.pc = "eval"
                THEN AfterEvaluator(b, 1, jd,
                                    [shape |-> "dict", matched_skills |-> probe.matched,
                                     rationale |-> "ai-rationale"], TRUE)
                ELSE b
       IN  probe' = [probe EXCEPT !.kind = "hifi", !.result = u.result]
    /\ UNCHANGED <<store, requests, started, seq, ranking, uploads>>

\* the outcome of an application that raised
Raised == [raised |-> TRUE]

\* _compute_prelim_score(jd_text, jd_req_skills, jd_nice_skills, resume_text)
ScorePrelim ==
    /\ probe.kind = "prelim_in"
    /\ probe' = [probe EXCEPT
                    !.kind = "prelim",
                    !.result = IF _compute_prelim_raises(probe.jd_text, probe.resume_text)
                               THEN Raised
                               ELSE _compute_prelim_score(probe.jd_text, probe.required,
                                                          probe.nice, probe.resume_text,
                                                          probe.years)]
    /\ UNCHANGED <<store, requests, started, seq, ranking, uploads>>

NextScore == ScoreHiFi \/ ScorePrelim

SpecScore == InitScore /\ [][NextScore]_vars

(***************************************************************************)
(* The heuristic scorer on texts that may hold nothing but short words.    *)
(***************************************************************************)
ShortJdTexts == JdTexts \cup {<<"c">>, <<"c", "py">>}

ShortResumeTexts == ResumeTexts \cup {<<"c", "r">>, <<"r", "py">>}

InitPrelim ==
    /\ store = [c \in {1, 2} |-> IF c = 2 THEN Null ELSE Legacy]
    /\ requests = [s \in Slots |-> IdleRequest]
    /\ started = 0
    /\ seq = [p \in {1, 2} \X JobIds |-> <<>>]
    /\ ranking = NoRanking
    /\ uploads = NoUploads
    /\ probe \in [kind : {"prelim_in"}, required : RequiredLists, nice : NiceLists,
                   matched : {<<>>}, jd_text : ShortJdTexts,
                   resume_text : ShortResumeTexts, years : YearsMentions,
                   result : {NoRec}]

SpecPrelim == InitPrelim /\ [][ScorePrelim]_vars

(***************************************************************************)
(* cosine_similarity on its own: arguments that are None, not a list, and  *)
(* lists of up to two elements, among them one that is not a number.       *)
(***************************************************************************)
Elements == {-1, 0, 1, NotNumeric}

Lists ==
    {<<>>} \cup {<<x>> : x \in Elements} \cup {<<x, y>> : x \in Elements, y \in Elements}

\* an argument: None, something that is not a list, or a list
Vectors ==
    {[shape |-> "none", elems |-> <<>>], [shape |-> "other", elems |-> <<>>]}
        \cup {[shape |-> "list", elems |-> v] : v \in Lists}

Arg(v) ==
    CASE v.shape = "none" -> None
      [] v.shape = "other" -> NotAList
      [] OTHER -> v.elems

InitCosine ==
    /\ store = [c \in {1, 2} |-> IF c = 2 THEN Null ELSE Legacy]
    /\ requests = [s \in Slots |-> IdleRequest]
    /\ started = 0
    /\ seq = [p \in {1, 2} \X JobIds |-> <<>>]
    /\ ranking = NoRanking
    /\ uploads = NoUploads
    /\ probe \in [kind : {"cosine_in"}, vec_a : Vectors, vec_b : Vectors,
                   result : {0}]

\* cosine_similarity(vec_a, vec_b)
ScoreCosine ==
    /\ probe.kind = "cosine_in"
    /\ probe' = [probe EXCEPT !.kind = "cosine",
                              !.result = cosine_similarity(Arg(probe.vec_a),
                                                            Arg(probe.vec_b))]
    /\ UNCHANGED <<store, requests, started, seq, ranking, uploads>>

SpecCosine == InitCosine /\ [][ScoreCosine]_vars

(***************************************************************************)
(* _match_skills on its own, with the threshold of its callers.            *)
(***************************************************************************)
MaxSkills == 3

SkillLabels == {"Py", "PY", "SQL", "Go", ""}

InitMatch ==
    /\ store = [c \in {1, 2} |-> IF c = 2 THEN Null ELSE Legacy]
    /\ requests = [s \in Slots |-> IdleRequest]
    /\ started = 0
    /\ seq = [p \in {1, 2} \X JobIds |-> <<>>]
    /\ ranking = NoRanking
    /\ uploads = NoUploads
    /\ probe \in [kind : {"match_in"}, resume_text : ResumeTexts,
                   skills : SeqsUpTo(SkillLabels, MaxSkills), result : {NoRec}]

\* _match_skills(resume_text_norm, skills, 85)
ScoreMatch ==
    /\ probe.kind = "match_in"
    /\ probe' = [probe EXCEPT !.kind = "match",
                              !.result = _match_skills(probe.resume_text,
                                                       probe.skills, 85)]
    /\ UNCHANGED <<store, requests, started, seq, ranking, uploads>>

SpecMatch == InitMatch /\ [][ScoreMatch]_vars

(***************************************************************************)
(* get_embedding (services.py:70-93).  The embedding service is a black    *)
(* box: per model of the fallback list it returns a dict with an           *)
(* embedding, a dict without one, something that is not a dict, or raises  *)
(* (rate limit, other error).  A vector is modelled by its length, whether *)
(* it is all zero, and the model that produced it.  The function never     *)
(* raises, so the tenacity retry around it never acts.                     *)
(***************************************************************************)
EmbeddingDim == 768

EMBEDDING_FALLBACKS == <<"models/text-embedding-004", "models/text-embedding-002">>

ZeroVector == [len |-> EmbeddingDim, zero |-> TRUE, by |-> ""]

EmbedAnswers == {"embedding", "no_embedding_key", "not_a_dict", "rate_limit", "error"}

\* a variant of EmbedFrom that gives up when a model fails: the property
\* about the embedding fallback must tell it from EmbedFrom
EmbedFrom_no_fallback(i, answers) ==
    IF answers[i] = "embedding"
    THEN [vec |-> [len |-> EmbeddingDim, zero |-> FALSE, by |-> EMBEDDING_FALLBACKS[i]],
          tried |-> i]
    ELSE [vec |-> ZeroVector, tried |-> i]

\* services.py:80-93: the loop over the models, from the i-th on; tried is
\* the number of models called
RECURSIVE EmbedFrom(_, _)
EmbedFrom(i, answers) ==
    IF i > Len(EMBEDDING_FALLBACKS)
    THEN [vec |-> ZeroVector, tried |-> Len(EMBEDDING_FALLBACKS)]
    ELSE IF answers[i] = "embedding"
         THEN [vec |-> [len |-> EmbeddingDim, zero |-> FALSE,
                        by |-> EMBEDDING_FALLBACKS[i]],
               tried |-> i]
    ELSE IF answers[i] = "no_embedding_key"
         THEN [vec |-> ZeroVector, tried |-> i]
    ELSE EmbedFrom(i + 1, answers)

\* "not text or not isinstance(text, str)": the empty string, None, a number
EmptyOrNonString == {"", None, NonStr}

get_embedding(text, answers) ==
    IF text \in EmptyOrNonString THEN [vec |-> ZeroVector, tried |-> 0]
    ELSE EmbedFrom(1, answers)

EmbedTexts == EmptyOrNonString \cup {"resume text", " "}

InitEmbed ==
    /\ store = [c \in {1, 2} |-> IF c = 2 THEN Null ELSE Legacy]
    /\ requests = [s \in Slots |-> IdleRequest]
    /\ started = 0
    /\ seq = [p \in {1, 2} \X JobIds |-> <<>>]
    /\ ranking = NoRanking
    /\ uploads = NoUploads
    /\ probe \in [kind : {"embed_in"}, text : EmbedTexts,
                   answers : [1..Len(EMBEDDING_FALLBACKS) -> EmbedAnswers],
                   result : {NoRec}]

\* await get_embedding(text)
ScoreEmbed ==
    /\ probe.kind = "embed_in"
    /\ probe' = [probe EXCEPT !.kind = "embed",
                              !.result = get_embedding(probe.text, probe.answers)]
    /\ UNCHANGED <<store, requests, started, seq, ranking, uploads>>

SpecEmbed == InitEmbed /\ [][ScoreEmbed]_vars

(***************************************************************************)
(* Resume uploads (resume.py:81-207).  uploads.stored is the number of     *)
(* resume rows of the user, uploads.jobs the upload jobs in the order in   *)
(* which they were accepted.  A job:                                       *)
(*   pc         "scheduled" (background task added, not yet started),      *)
(*              "running", "dead" (the task ended with an exception),      *)
(*              "ended"                                                    *)
(*   status, progress, total   its entry of job_statuses; status "absent"  *)
(*              while there is no entry; total is also len(file_data)      *)
(*   session_ok FALSE once a commit of the task failed: the task does not  *)
(*              roll back, and later commits on the session fail too       *)
(* The background task runs after the response, so that other requests     *)
(* are served before it starts and while it awaits the parser and the      *)
(* embedding.  One loop iteration is one step: the file is written before  *)
(* the await, the row is committed and progress is set after it.           *)
(***************************************************************************)
\* resume.py:175
MAX_RESUMES == 20

\* upload requests accepted
MaxUploads == 2

\* numbers of files of a request that can be read and are no duplicates of
\* stored resumes or of one another
UploadSizes == {0, 1, 20}

\* what happens to one file: open() or write() fails (resume.py:103-104),
\* its hash is among those read at the start of the task, its text is
\* empty, the parser or the embedding raises, the commit fails, the row is
\* stored
FileOutcomes == {"disk_error", "duplicate", "empty", "parse_error", "db_error", "stored"}

\* POST /bulk-upload (resume.py:164-207) with n new files
BulkUpload(n) ==
    /\ Len(uploads.jobs) < MaxUploads
    /\ LET existing == uploads.stored
           remaining_slots == MAX_RESUMES - existing
           scheduled == Min(n, remaining_slots)
       IN  uploads' =
             IF remaining_slots <= 0 \/ scheduled = 0 THEN uploads
             ELSE [uploads EXCEPT !.jobs =
                     Append(@, [pc |-> "scheduled", status |-> "absent",
                                progress |-> 0, total |-> scheduled,
                                session_ok |-> TRUE])]
    /\ UNCHANGED <<store, requests, started, seq, ranking, probe>>

\* process_resume_files up to the loop (resume.py:91-95): the entry of
\* job_statuses is made, then the stored hashes are queried
StartTask(k, query_ok) ==
    /\ k <= Len(uploads.jobs)
    /\ uploads.jobs[k].pc = "scheduled"
    /\ uploads' = [uploads EXCEPT !.jobs[k].pc = IF query_ok THEN "running" ELSE "dead",
                                  !.jobs[k].status = "processing"]
    /\ UNCHANGED <<store, requests, started, seq, ranking, probe>>

\* one iteration of the loop (resume.py:97-157) and, after the last one,
\* resume.py:160
ProcessFile(k, outcome) ==
    /\ k <= Len(uploads.jobs)
    /\ LET job == uploads.jobs[k]
           progress == job.progress + 1
       IN  /\ job.pc = "running"
           /\ outcome = "stored" => job.session_ok
           /\ uploads' =
                 IF outcome = "disk_error"
                 THEN [uploads EXCEPT !.jobs[k].pc = "dead"]
                 ELSE [uploads EXCEPT
                         !.stored = IF outcome = "stored" THEN @ + 1 ELSE @,
                         !.jobs[k] =
                            [job EXCEPT
                               !.progress = progress,
                               !.session_ok = @ /\ outcome # "db_error",
                               !.status = IF progress = job.total THEN "completed" ELSE @,
                               !.pc = IF progress = job.total THEN "ended" ELSE @]]
    /\ UNCHANGED <<store, requests, started, seq, ranking, probe>>

\* the steps of the background task of job k
TaskStep(k) ==
    \/ \E query_ok \in BOOLEAN : StartTask(k, query_ok)
    \/ \E outcome \in FileOutcomes : ProcessFile(k, outcome)

InitUpload ==
    /\ store = [c \in {1, 2} |-> IF c = 2 THEN Null ELSE Legacy]
    /\ requests = [s \in Slots |-> IdleRequest]
    /\ started = 0
    /\ seq = [p \in {1, 2} \X JobIds |-> <<>>]
    /\ ranking = NoRanking
    /\ probe = NoProbe
    /\ uploads = NoUploads

NextUpload ==
    \/ \E n \in UploadSizes : BulkUpload(n)
    \/ \E k \in 1..MaxUploads, query_ok \in BOOLEAN : StartTask(k, query_ok)
    \/ \E k \in 1..MaxUploads, outcome \in FileOutcomes : ProcessFile(k, outcome)

SpecUpload == InitUpload /\ [][NextUpload]_vars

\* every background task that can take a step eventually takes one
SpecUploadLive == SpecUpload /\ \A k \in 1..MaxUploads : WF_vars(TaskStep(k))

(***************************************************************************)
(* Properties.  Position of a unit: it has begun when its pc is neither    *)
(* "none" nor "queued"; it is a call of ensure_analysis_for_jd when it has *)
(* begun and did not return through the batch filter.                      *)
(***************************************************************************)
Begun(u) == u.pc \notin {"none", "queued"}

IsEnsureCall(u) == Begun(u) /\ u.via # "filtered"

HasRequired(j) == j \in JobIds /\ JobDescription(j).required_skills # <<>>

\* the unit of resume c in request s begins in this step
Begins(s, c) == ~Begun(requests[s].units[c]) /\ Begun(requests'[s].units[c])

\* the unit of resume c in request s reaches db.commit() in this step
Commits(s, c) ==
    requests[s].units[c].commit = "" /\ requests'[s].units[c].commit # ""

\* the rationale of a record built from what the evaluator returned
EvaluatorRationales == {"no-rationale-provided", "ai-rationale"}

\* C1 as stated: of two successive calls ensure_analysis_for_jd(c, j,
\* force=False) on a job with required skills, with no concurrent writer,
\* both return the same record and together they invoke the evaluator at
\* most once.
C1_CacheIdempotence_AsStated ==
    \A p \in Resumes \X JobIds :
        Len(seq[p]) = 2 =>
            /\ seq[p][1].ret = seq[p][2].ret
            /\ seq[p][1].evals + seq[p][2].evals <= 1

\* C1, amended: the same, provided the record the first call returned was
\* in the stored map when it returned (a cache hit, or its commit succeeded).
C1_CacheIdempotence ==
    \A p \in Resumes \X JobIds :
        (Len(seq[p]) = 2 /\ seq[p][1].stored) =>
            /\ seq[p][1].ret = seq[p][2].ret
            /\ seq[p][1].evals + seq[p][2].evals <= 1

\* the first call computed the record through the evaluator and stored it,
\* the second call returned it from the cache
C1_Witness ==
    \E p \in Resumes \X JobIds :
        /\ Len(seq[p]) = 2
        /\ seq[p][1].stored
        /\ seq[p][1].evals = 1
        /\ seq[p][2].evals = 0
        /\ seq[p][2].ret = store[p[1]].recs[p[2]]

\* C2, for jobs with required skills: a call ensure_analysis_for_jd(c, j,
\* force=True) without skip_ai invokes the evaluator whatever the cache
\* holds, and when it writes c's analysis map the entries of all jobs other
\* than j stay as they were.
C2_ForceSemantics ==
    [][\A s \in Slots, c \in Resumes :
          LET r == requests'[s]
              u == r.units[c]
          IN  (r.force /\ ~r.skip_ai /\ IsEnsureCall(u) /\ HasRequired(r.jd)) =>
                 /\ u.evals = 1
                 /\ Commits(s, c) =>
                       \A k \in JobIds \ {r.jd} : store'[c].recs[k] = store[c].recs[k]
      ]_vars

\* C3: for no (candidate, job) pair are two evaluator calls of non-forced
\* requests in flight at the same time.
C3_SingleFlight ==
    \A c \in Resumes, j \in JobIds :
        Cardinality({s \in Slots : /\ requests[s].jd = j
                                   /\ ~requests[s].force
                                   /\ requests[s].units[c].pc = "eval"}) <= 1

\* C4: at every moment at most 5 evaluator calls are in flight, over all
\* batch and single-candidate requests in progress.
C4_AdmissionLimit == InFlight <= SemaphoreLimit

C6_EmptyRequiredSkills ==
    [][\A s \in Slots, c \in Resumes :
          LET r == requests'[s]
              u == r.units[c]
          IN  (Begins(s, c) /\ IsEnsureCall(u) /\ r.jd \in JobIds /\ ~HasRequired(r.jd)) =>
                 /\ u.pc = "done"
                 /\ u.result.score = 0
                 /\ u.result.match_rating = "Weak"
                 /\ u.evals = 0
                 /\ ~u.read
                 /\ u.commit = ""
                 /\ store' = store
      ]_vars

\* a forced call for the job without required skills has returned, for a
\* candidate whose map already holds a record of another job
C6_Witness ==
    \E s \in Slots, c \in Resumes :
        /\ requests[s].jd = 3
        /\ requests[s].force
        /\ requests[s].units[c].via = "norequired"
        /\ requests[s].units[c].result = NoRequiredRecord
        /\ \E k \in JobIds : store[c].recs[k] # NoRec

\* C7: every record stored under a jd_ key is rated Strong, Good or Weak
\* and was built from an output of the evaluator.
C7_RatingProvenance ==
    \A c \in Resumes, j \in JobIds :
        LET rec == store[c].recs[j]
        IN  rec # NoRec =>
               /\ rec.match_rating \in {"Strong", "Good", "Weak"}
               /\ rec.rationale \in EvaluatorRationales

\* C8: a step changes the entry jd_<k> of a candidate's analysis map only
\* as the write of a call ensure_analysis_for_jd(c, k, ...), and only when
\* the entry was absent or the call was forced.
C8_CacheFrame ==
    [][\A c \in Resumes, k \in JobIds :
          store'[c].recs[k] # store[c].recs[k] =>
             \E s \in Slots :
                /\ requests'[s].jd = k
                /\ Commits(s, c)
                /\ store[c].recs[k] = NoRec \/ requests'[s].force
      ]_vars

\* C9: a batch never answers with an error, and when it answers it holds
\* one result for every candidate.
C9_BatchNeverAborts ==
    \A s \in Slots :
        requests[s].kind = "batch" =>
            /\ requests[s].resp # "error"
            /\ requests[s].resp = "ok" => Len(Out(requests[s])) = Cardinality(Resumes)

\* C10: a call whose evaluator raised does not raise; it returns the record
\* built from the parsed skills that are among the job's skills, with the
\* rationale that AI was unavailable.
C10_EvaluatorFailureFallback ==
    \A s \in Slots, c \in Resumes :
        LET u == requests[s].units[c]
            jd == JobDescription(requests[s].jd)
        IN  u.outcome = "raise" =>
               /\ u.pc = "done"
               /\ u.result.rationale = "fallback-ai-unavailable"
               /\ u.result = AnalysisObj(c, jd, FallbackResult(c, jd))

\* the results ensure_analysis_for_jd can go on with at main.py:336, given
\* how the call went
ResultsToScore(r, u, c) ==
    IF r.skip_ai THEN {SkippedResult}
    ELSE IF u.outcome = "raise" THEN {FallbackResult(c, JobDescription(r.jd))}
    ELSE {[o EXCEPT !.rationale = IF @ = "absent" THEN "no-rationale-provided" ELSE @] :
             o \in EvaluatorReturns}

\* C11: when the commit of the updated analysis map fails, the call does
\* not raise: it returns the record it would have returned had the commit
\* succeeded (and the stored map is as before the call's write).
C11_PersistenceFailureSoft ==
    [][\A s \in Slots, c \in Resumes :
          LET r == requests'[s]
              u == r.units[c]
          IN  (Commits(s, c) /\ u.commit = "failed") =>
                 /\ u.pc = "done"
                 /\ \E ai_result \in ResultsToScore(r, u, c) :
                       u.result = FinishEnsure(requests[s].units[c], c,
                                               JobDescription(r.jd), ai_result, TRUE).result
                 /\ store'[c] = store[c]
      ]_vars

\* a call whose evaluator returned and whose commit failed has answered
\* with its record, which is not in the stored map
C11_Witness ==
    \E s \in Slots, c \in Resumes :
        LET r == requests[s]
            u == r.units[c]
        IN  /\ r.kind = "single"
            /\ u.commit = "failed"
            /\ u.outcome = "return"
            /\ u.pc = "done"
            /\ r.resp = "ok"
            /\ u.result.match_rating = "Strong"
            /\ store[c].recs[r.jd] = NoRec

\* in the step in which the unit of resume c in request s begins: another
\* request's call for the same candidate and job has returned after its
\* commit failed
FailedWriteBefore(s, c) ==
    \E t \in Slots \ {s} :
        /\ requests[t].jd = requests'[s].jd
        /\ requests[t].units[c].pc = "done"
        /\ requests[t].units[c].commit = "failed"

\* C12 as stated: after the write-through of a record for (c, j) failed,
\* the next call ensure_analysis_for_jd(c, j, force=False) invokes the
\* evaluator again.
C12_RecomputeAfterFailure_AsStated ==
    [][\A s \in Slots, c \in Resumes :
          LET r == requests'[s]
              u == r.units[c]
          IN  (/\ Begins(s, c) /\ IsEnsureCall(u) /\ ~r.force /\ ~r.skip_ai
               /\ FailedWriteBefore(s, c)) =>
                 u.pc = "eval" /\ u.evals = 1 /\ u.via # "cached"
      ]_vars

\* C12, amended: the same, provided the stored map holds no earlier record
\* under jd_<j.id> (the failed write was not the recomputation of a record
\* already stored).
C12_RecomputeAfterFailure ==
    [][\A s \in Slots, c \in Resumes :
          LET r == requests'[s]
              u == r.units[c]
          IN  (/\ Begins(s, c) /\ IsEnsureCall(u) /\ ~r.force /\ ~r.skip_ai
               /\ FailedWriteBefore(s, c)
               /\ store[c].recs[r.jd] = NoRec) =>
                 u.pc = "eval" /\ u.evals = 1 /\ u.via # "cached"
      ]_vars

\* a call returned after its commit failed, and a later non-forced call for
\* the same candidate and job is with the evaluator
C12_Witness ==
    \E s \in Slots, t \in Slots, c \in Resumes :
        /\ s # t
        /\ requests[t].jd = requests[s].jd
        /\ requests[t].units[c].pc = "done"
        /\ requests[t].units[c].commit = "failed"
        /\ ~requests[s].force
        /\ requests[s].units[c].pc = "eval"
        /\ requests[s].units[c].evals = 1
        /\ requests[s].units[c].clean

\* the probe holds the result of an application
Scored == probe.kind \in {"hifi", "prelim"}

\* matched required and missing required skills of the probe's result, in
\* lower case
MatchedRequiredLower ==
    LowerSet(probe.result.matched_skills) \cap LowerSet(probe.required)

MissingRequiredLower == {Lower(x) : x \in probe.result.missing_skills}

\* C13 as stated: on both paths the matched required and the missing
\* required skills of a result are disjoint and their union is the job's
\* required-skill set, compared case-insensitively.
C13_Partition_AsStated ==
    Scored =>
        /\ MatchedRequiredLower \cap MissingRequiredLower = {}
        /\ MatchedRequiredLower \cup MissingRequiredLower = LowerSet(probe.required)

\* C13, amended: the same, where on the heuristic path the required-skill
\* set is that of the job's non-empty labels (_compute_prelim_score drops
\* empty labels before matching).
C13_Partition ==
    Scored =>
        /\ MatchedRequiredLower \cap MissingRequiredLower = {}
        /\ MatchedRequiredLower \cup MissingRequiredLower =
              IF probe.kind = "prelim" THEN LowerSet(probe.required) \ {""}
              ELSE LowerSet(probe.required)

\* a high-fidelity result with a required skill matched in another casing,
\* a matched label outside the job's lists and a required skill missing
C13_Witness ==
    /\ probe.kind = "hifi"
    /\ probe.required = <<"Py", "SQL", "Rust">>
    /\ probe.matched = <<"PY", "java", "rust">>
    /\ probe.result.missing_skills = {"SQL"}
    /\ MatchedRequiredLower = {"py", "rust"}

\* C14: the score of a result is between 0 and 100 on the heuristic path
\* and on the high-fidelity path, for all skill lists, texts and evaluator
\* outputs.
C14_ScoreBounds ==
    Scored => 0 <= probe.result.score /\ probe.result.score <= 10000

\* a high-fidelity result for a skill that is both required and nice to
\* have, matched twice, beside a label outside the lists: score 100.00
C14_Witness ==
    /\ probe.kind = "hifi"
    /\ probe.required = <<"Py">>
    /\ probe.nice = <<"PY">>
    /\ probe.matched = <<"py", "PY", "java">>
    /\ probe.result.score = 10000

\* C15: on the high-fidelity path the rating is Strong iff total > 70, Good
\* iff 35 < total <= 70 and Weak iff total <= 35 (so 70.00 is Good and 35.00
\* is Weak).
C15_RatingThresholds ==
    probe.kind = "hifi" =>
        LET total == probe.result.score
            rating == probe.result.match_rating
        IN  /\ rating \in {"Strong", "Good", "Weak"}
            /\ rating = "Strong" <=> total > 7000
            /\ rating = "Good" <=> (3500 < total /\ total <= 7000)
            /\ rating = "Weak" <=> total <= 3500

\* two of three required skills and the only nice-to-have skill matched:
\* total exactly 70.00, rated Good
C15_Witness ==
    /\ probe.kind = "hifi"
    /\ probe.required = <<"Py", "SQL", "Rust">>
    /\ probe.nice = <<"Go">>
    /\ probe.result.score = 7000
    /\ probe.result.match_rating = "Good"

\* |x|
Abs(x) == IF x < 0 THEN 0 - x ELSE x

FirstOccurrences ==
    {i \in 1..Len(probe.matched) :
        \A k \in 1..(i - 1) : Lower(probe.matched[k]) # Lower(probe.matched[i])}

\* C17: the matched-skills list of a high-fidelity record has one entry per
\* label the evaluator matched, labels equal up to case counted once, in
\* the order of their first occurrences; the entry is the job's casing when
\* the label equals, up to case, a required or nice-to-have skill, and the
\* first occurrence unchanged otherwise.
C17_Canonicalization ==
    (probe.kind = "hifi" /\ probe.required # <<>>) =>
        LET out == probe.result.matched_skills
            labels == Range(probe.required) \cup Range(probe.nice)
        IN  /\ Len(out) = Cardinality(FirstOccurrences)
            /\ \A i \in FirstOccurrences :
                  LET k == Cardinality({x \in FirstOccurrences : x <= i})
                      given == probe.matched[i]
                  IN  IF \E x \in labels : Lower(x) = Lower(given)
                      THEN out[k] \in labels /\ Lower(out[k]) = Lower(given)
                      ELSE out[k] = given

\* the evaluator matched PY, java and py for a job that requires Py: the
\* record lists Py and java
C17_Witness ==
    /\ probe.kind = "hifi"
    /\ probe.required = <<"Py", "SQL">>
    /\ probe.nice = <<"Go">>
    /\ probe.matched = <<"PY", "java", "py">>
    /\ probe.result.matched_skills = <<"Py", "java">>

\* C18: every record returned by ensure_analysis_for_jd carries a
\* similarity field: the cosine similarity of the two embeddings (to four
\* places) when both exist, 0 otherwise, on every return path.
C18_SimilarityField ==
    \A s \in Slots, c \in Resumes :
        LET r == requests[s]
            u == r.units[c]
        IN  (IsEnsureCall(u) /\ u.pc = "done") =>
               u.result.similarity = <<Round4(SimTable[c, r.jd])>>

C20_RankingReadOnly ==
    [][ranking' # ranking =>
          /\ store' = store
          /\ requests' = requests
          /\ \A s \in Slots, c \in Resumes :
                requests'[s].units[c].evals = requests[s].units[c].evals
      ]_vars

\* a ranking for job 1 was answered, with resume 1 scored by the heuristic,
\* while resume 1's map holds the record of job 2 only and an evaluator call
\* for resume 2 is in flight
C20_Witness ==
    /\ ranking.jd = 1
    /\ Len(ranking.out) = 2
    /\ ranking.out[1].resume = 1
    /\ ranking.out[1].match_rating = "Preliminary"
    /\ store[1].recs = PutRecord(EmptyContainer, 2, StoredRecord)
    /\ store[2] = Null
    /\ \E s \in Slots : requests[s].units[2].pc = "eval"

\* C21: when a ranking of job j is answered after a batch for j answered
\* with an error, every candidate whose unit of that batch had computed a
\* record and committed it before the error is ranked with a stored record,
\* not with a heuristic result.
C21_PartialResultsSurvive ==
    [][ranking' # ranking =>
          \A s \in Slots, c \in Resumes :
              LET r == requests[s]
                  u == r.units[c]
              IN  (/\ r.kind = "batch"
                   /\ r.jd = ranking'.jd
                   /\ r.resp = "error"
                   /\ c \in r.partial
                   /\ u.via = "computed"
                   /\ u.commit = "ok") =>
                      \A i \in 1..Len(ranking'.out) :
                          ranking'.out[i].resume = c =>
                              ranking'.out[i].match_rating # "Preliminary"
      ]_vars

\* C22: _compute_prelim_score returns a result for every job text, skill
\* lists and candidate text: no application raises.
C22_HeuristicNeverFails ==
    probe.kind = "prelim" => probe.result # Raised

\* a heuristic result was returned
PrelimReturned == probe.kind = "prelim" /\ probe.result # Raised

\* labels of a list that the resume text matches, and all its labels, up to
\* case
MatchedLower(labels) ==
    {Lower(x) : x \in {y \in Range(labels) : _fuzzy_contains(probe.resume_text, y, 85)}}

\* score (in hundredths) is 100 * (0.55 m / R + 0.20 n / max(1, N)
\* + 0.20 tfidf + 0.05 min(years / 10, 1)) rounded to two places, the
\* required coverage being 0 when R = 0
IsBlend(score, m, R, n, N) ==
    LET R1 == Max(1, R)
        N1 == Max(1, N)
        years == Min(MaxOf(probe.years), 200)
        exact5 == 27500 * m * N1 + 10000 * n * R1
                    + _tfidf_cosine(probe.jd_text, probe.resume_text) * R1 * N1
                    + 25 * Min(years, 100) * R1 * N1
    IN  2 * Abs(score * 5 * R1 * N1 - exact5) <= 5 * R1 * N1

PrelimShape ==
    /\ probe.result.match_rating = "Preliminary"
    /\ probe.result.rationale = None
    /\ probe.result.analyzed_at = None

\* C23 as stated: the heuristic score is the weighted blend, the coverages
\* counted over the skill lists with labels equal up to case counted once;
\* the result is rated Preliminary, without rationale and timestamp.
C23_HeuristicFormula_AsStated ==
    PrelimReturned =>
        /\ IsBlend(probe.result.score,
                   Cardinality(MatchedLower(probe.required)),
                   Cardinality(LowerSet(probe.required)),
                   Cardinality(MatchedLower(probe.nice)),
                   Cardinality(LowerSet(probe.nice)))
        /\ PrelimShape

\* C23, amended: the same, the coverages counted over the non-empty labels
\* of the skill lists (_compute_prelim_score drops empty labels before it
\* counts).
C23_HeuristicFormula ==
    PrelimReturned =>
        /\ IsBlend(probe.result.score,
                   Cardinality(MatchedLower(probe.required)),
                   Cardinality(LowerSet(probe.required) \ {""}),
                   Cardinality(MatchedLower(probe.nice)),
                   Cardinality(LowerSet(probe.nice) \ {""}))
        /\ PrelimShape

\* required Py and an empty label, nice-to-have Go and Rust, a resume that
\* shares the one token of the vocabulary with the job text, mentions 7
\* years and has Py: 55 + 0 + 20 + 3.5
C23_Witness ==
    /\ probe.kind = "prelim"
    /\ probe.required = <<"Py", "">>
    /\ probe.nice = <<"Go", "Rust">>
    /\ probe.jd_text = <<"c", "py">>
    /\ probe.resume_text = <<"r", "py">>
    /\ probe.years = <<70>>
    /\ probe.result.score = 7850

\* C24: cosine_similarity returns a value between 0 and 1 for every pair
\* of arguments (the model's unit is 1 / 20000).
C24_CosineRange ==
    probe.kind = "cosine" => (0 <= probe.result /\ probe.result <= 20000)

\* out lists, in their order, the elements of xs at the positions in idx
ListsPositions(out, xs, idx) ==
    /\ Len(out) = Cardinality(idx)
    /\ \A i \in idx : out[Cardinality({k \in idx : k <= i})] = xs[i]

\* C25: _match_skills returns the input labels for which _fuzzy_contains
\* holds as matched and the other ones as missing, both in input order; a
\* label that occurs in the normalized text, up to case, is matched and an
\* empty label is not.
C25_MatchSkills ==
    probe.kind = "match" =>
        LET xs == probe.skills
            hits == {i \in 1..Len(xs) : _fuzzy_contains(probe.resume_text, xs[i], 85)}
        IN  /\ ListsPositions(probe.result.matched, xs, hits)
            /\ ListsPositions(probe.result.missing, xs, (1..Len(xs)) \ hits)
            /\ \A i \in 1..Len(xs) :
                  /\ (xs[i] # "" /\ Lower(xs[i]) \in Range(probe.resume_text)) => i \in hits
                  /\ xs[i] = "" => i \notin hits

\* SQL (nearly in the text), an empty label and Py (not in the text): SQL
\* is matched, the empty label and Py are missing, in that order
C25_Witness ==
    /\ probe.kind = "match"
    /\ probe.resume_text = <<"sqll", "goo">>
    /\ probe.skills = <<"SQL", "", "Py">>
    /\ probe.result.matched = <<"SQL">>
    /\ probe.result.missing = <<"", "Py">>

\* answers with which a call of the embedding service fails
EmbedFailures == {"not_a_dict", "rate_limit", "error"}

\* C26: get_embedding returns a vector of length 768 for every input; the
\* all-zero vector, without calling the service, for an empty or
\* non-string text, and the all-zero vector when every model fails;
\* otherwise the models are called in list order up to the first one that
\* does not fail, whose embedding is returned.
C26_EmbeddingNeverRaises ==
    probe.kind = "embed" =>
        LET r == probe.result
            ok == {i \in 1..Len(EMBEDDING_FALLBACKS) : probe.answers[i] \notin EmbedFailures}
        IN  /\ r # Raised
            /\ r.vec.len = 768
            /\ IF probe.text \in {"", None, NonStr}
               THEN r.vec = ZeroVector /\ r.tried = 0
               ELSE IF ok = {}
                    THEN r.vec = ZeroVector /\ r.tried = Len(EMBEDDING_FALLBACKS)
               ELSE LET first == CHOOSE i \in ok : \A k \in ok : i <= k
                    IN  /\ r.tried = first
                        /\ probe.answers[first] = "embedding" =>
                              (~r.vec.zero /\ r.vec.by = EMBEDDING_FALLBACKS[first])

\* the first model is rate limited and the second one answers: its
\* embedding is returned
C26_Witness ==
    /\ probe.kind = "embed"
    /\ probe.text = "resume text"
    /\ probe.answers = <<"rate_limit", "embedding">>
    /\ probe.result.tried = 2
    /\ probe.result.vec.by = "models/text-embedding-002"

\* C27: every upload job eventually has status completed with progress
\* equal to total, whatever happens to its files; progress never decreases
\* and never exceeds total.
C27_UploadProgress ==
    /\ \A k \in 1..MaxUploads :
          (k <= Len(uploads.jobs))
             ~> (/\ k <= Len(uploads.jobs)
                 /\ uploads.jobs[k].status = "completed"
                 /\ uploads.jobs[k].progress = uploads.jobs[k].total)
    /\ [](\A k \in 1..Len(uploads.jobs) :
             uploads.jobs[k].progress <= uploads.jobs[k].total)
    /\ [][\A k \in 1..Len(uploads.jobs) :
             uploads'.jobs[k].progress >= uploads.jobs[k].progress]_vars

\* C28: a user never has more than 20 stored resumes.
C28_ResumeLimit == uploads.stored <= 20

IsOutageRecord(rec) == rec # NoRec /\ rec.rationale = ""

\* with every model failing evaluate_candidate_for_jd returns the empty
\* structure; a call that got it did not take the fallback branch and
\* computed a record without matched skills, with score 0 and rating Weak
OutageRecordShape ==
    /\ evaluate_candidate_for_jd(Outage) = EmptyStructure
    /\ \A s \in Slots, c \in Resumes :
          LET u == requests[s].units[c]
          IN  (u.pc = "done" /\ u.via = "computed" /\ IsOutageRecord(u.result)) =>
                 /\ u.outcome = "return"
                 /\ u.result.matched_skills = <<>>
                 /\ u.result.score = 0
                 /\ u.result.match_rating = "Weak"

\* a call with force=False that begins while an outage record is stored
\* under jd_<j.id> returns that record without invoking the evaluator
OutageRecordReused ==
    \A s \in Slots, c \in Resumes :
        LET rec == store[c].recs[requests'[s].jd]
            u == requests'[s].units[c]
        IN  (Begins(s, c) /\ ~requests'[s].force /\ IsOutageRecord(rec)) =>
               /\ u.pc = "done"
               /\ u.result = rec
               /\ u.evals = 0

\* C30 as stated: the record of an outage is computed as said, it is stored
\* under jd_<j.id> whenever the call reaches its commit, and a later call
\* with force=False returns the stored record without invoking the
\* evaluator.
C30_OutageCached_AsStated ==
    /\ []OutageRecordShape
    /\ [][/\ \A s \in Slots, c \in Resumes :
                (Commits(s, c) /\ IsOutageRecord(requests'[s].units[c].result)) =>
                    store'[c].recs[requests'[s].jd] = requests'[s].units[c].result
          /\ OutageRecordReused]_vars

\* C30, amended: the same, the record being stored when the commit
\* succeeds.
C30_OutageCached ==
    /\ []OutageRecordShape
    /\ [][/\ \A s \in Slots, c \in Resumes :
                (/\ Commits(s, c)
                 /\ IsOutageRecord(requests'[s].units[c].result)
                 /\ requests'[s].units[c].commit = "ok") =>
                    store'[c].recs[requests'[s].jd] = requests'[s].units[c].result
          /\ OutageRecordReused]_vars

\* two calls with force=False in a row: the first one invoked the evaluator
\* during an outage and stored its record, the second one returned that
\* record without invoking the evaluator
C30_Witness ==
    \E c \in Resumes, j \in JobIds :
        /\ Len(seq[c, j]) = 2
        /\ IsOutageRecord(seq[c, j][1].ret)
        /\ seq[c, j][1].evals = 1
        /\ seq[c, j][1].stored
        /\ seq[c, j][2].ret = seq[c, j][1].ret
        /\ seq[c, j][2].evals = 0
        /\ store[c].recs[j] = seq[c, j][1].ret

====
